---- MODULE Spec2Model ----
(***************************************************************************)
(* A model of the distributed genetic algorithm for the travelling         *)
(* salesman problem: the TSP organism (src/src/tsp.rs), the generation     *)
(* step ga_iteraration (src/src/genetic_algorithm.rs) and the MPI          *)
(* controller / worker protocol of main (src/src/main.rs).                 *)
(*                                                                         *)
(* f32 values are modelled by integers: the distance matrix holds whole    *)
(* numbers whose path sums are exact in f32, INFINITY is a value above     *)
(* every finite sum, and rates and random draws of [0,1) are in tenths.    *)
(* A byte buffer is a sequence of words, one word per encoded field.       *)
(***************************************************************************)
EXTENDS Integers, Sequences, FiniteSets, TLC

\* ------------------------------------------------------------------ bounds

\* Number of nodes of the distance matrix (29 in main.rs; its leading block).
N == 3
\* Largest number of worker processes (world size - 1) a run is started with.
MaxWorkers == 3
\* Largest population handed to ga_iteraration on its own.
MaxPopulation == 3

\* ------------------------------------------------------- program constants

\* The constants of main.rs, at a small scale: 50 iterations, 10000
\* individuals and an elite of 20 there. With 3 individuals the worker
\* counts 1 and 3 divide the population and 2 does not.
ITERATIONS == 2
NUMBER_OF_INDIVIDUALS_PER_POPULATION == 3
ELITE == 1
\* Rates in tenths: 0.1 and 0.9.
MUTATION_RATE == 1
CROSSOVER_RATE == 9
ROOT_PROCESS == 0
\* f32::INFINITY: above every finite path sum of the modelled matrix.
INFINITY == 1000000

\* Samples of the uniform distribution over [0,1), in tenths: one below every
\* positive rate used, one between the two program rates, one above them.
Draws == {0, 5, 9}
\* Rates ga_iteraration is called with, in tenths (0.0, 0.1, 0.9, 1.0).
Rates == {0, MUTATION_RATE, CROSSOVER_RATE, 10}

\* ------------------------------------------------------------ helpers

Min(a, b) == IF a <= b THEN a ELSE b

Range(s) == {s[i] : i \in 1..Len(s)}

\* The sum of the entries of a sequence of numbers.
SumSeq(s) ==
    LET sum[i \in 0..Len(s)] == IF i = 0 THEN 0 ELSE sum[i - 1] + s[i]
    IN  sum[Len(s)]

\* The concatenation of a sequence of sequences.
Concat(ss) ==
    LET cat[i \in 0..Len(ss)] == IF i = 0 THEN <<>> ELSE cat[i - 1] \o ss[i]
    IN  cat[Len(ss)]

\* The multiset of the entries of a sequence, as a function from entry to count.
BagOf(s) == [x \in Range(s) |-> Cardinality({i \in 1..Len(s) : s[i] = x})]

\* All sequences of length n over S.
RECURSIVE SeqsOfLen(_, _)
SeqsOfLen(S, n) ==
    IF n = 0 THEN {<<>>}
    ELSE {Append(p, x) : p \in SeqsOfLen(S, n - 1), x \in S}

\* All sequences whose i-th entry is drawn from sets[i].
RECURSIVE SeqProduct(_)
SeqProduct(sets) ==
    IF sets = <<>> THEN {<<>>}
    ELSE {<<x>> \o rest : x \in Head(sets), rest \in SeqProduct(Tail(sets))}

\* The permutations of 1..n, as sequences.
Perms(n) == {p \in SeqsOfLen(1..n, n) : Range(p) = 1..n}

\* ------------------------------------------------------------ tsp.rs

\* The leading 5 x 5 block of the distance matrix of initialize().
MatrixData ==
    << <<0, 74, 4110, 3048, 2267>>,
       <<74, 0, 4070, 3000, 2214>>,
       <<4110, 4070, 0, 1173, 1973>>,
       <<3048, 3000, 1173, 0, 817>>,
       <<2267, 2214, 1973, 817, 0>> >>

\* TspProblem.graph_weights: N rows of N weights; node a is row a + 1.
graph_weights == [a \in 1..N |-> [b \in 1..N |-> MatrixData[a][b]]]

\* A path is a sequence of node indices (TspSolution.path), position p of the
\* source being entry p + 1 here.
Nodes == 0..(N - 1)
ValidPaths == {p \in SeqsOfLen(Nodes, N) : Range(p) = Nodes}

\* TspSolution::new: the identity path.
TspSolution_new(nodes) == [i \in 1..nodes |-> i - 1]

\* What a call that can panic yields: the value returned, or a panic.
Returned(value) == [panic |-> FALSE, value |-> value]
Panicked == [panic |-> TRUE, value |-> <<>>]

\* Whether indexing map[a][b] is in bounds.
InBounds(map, a, b) == a + 1 \in 1..Len(map) /\ b + 1 \in 1..Len(map[a + 1])

\* TSP::fitness panics when a consecutive pair of the path indexes the
\* matrix out of bounds (the sum is computed before the uniqueness test).
fitness_panics(path, map) ==
    \E i \in 1..(Len(path) - 1) : ~InBounds(map, path[i], path[i + 1])

\* TSP::fitness: the sum of the weights over the consecutive pairs of the
\* path, replaced by INFINITY when the number of distinct entries differs
\* from the number of nodes.
fitness_closed(path, map) ==
    IF Cardinality(Range(path)) # Len(map)
    THEN INFINITY
    ELSE SumSeq([i \in 1..Len(path) |-> map[path[i] + 1][path[(i % Len(path)) + 1] + 1]])

fitness(path, map) ==
    IF Cardinality(Range(path)) # Len(map)
    THEN INFINITY
    ELSE SumSeq([i \in 1..(Len(path) - 1) |-> map[path[i] + 1][path[i + 1] + 1]])

\* Vec::swap of the entries at two positions (0-based).
swap_overwrite(path, first_index, second_index) ==
    [path EXCEPT ![first_index + 1] = path[second_index + 1]]

swap(path, first_index, second_index) ==
    [path EXCEPT ![first_index + 1] = path[second_index + 1],
                 ![second_index + 1] = path[first_index + 1]]

\* The pairs of positions mutate can draw: gen_range(0..len) twice. The
\* range is empty for an empty path, and gen_range panics (mutate_panics).
MutateDraws(path) ==
    IF Len(path) = 0 THEN {<<0, 0>>}
    ELSE (0..(Len(path) - 1)) \X (0..(Len(path) - 1))

mutate_panics(path) == Len(path) = 0

\* TSP::mutate with the two drawn positions: swap the entries there.
mutate_copying(path, first_index, second_index) ==
    [path EXCEPT ![second_index + 1] = path[first_index + 1]]

mutate(path, first_index, second_index) == swap(path, first_index, second_index)

\* The (start_index, end_index) pairs cross_over can draw:
\* gen_range(0..len), then gen_range(start_index..len).
CrossOverDraws(path) ==
    IF Len(path) = 0 THEN {<<0, 0>>}
    ELSE {d \in (0..(Len(path) - 1)) \X (0..(Len(path) - 1)) : d[1] <= d[2]}

\* cross_over panics on an empty path (gen_range of an empty range) and
\* when other is too short for the slice [start_index .. end_index].
cross_over_panics(self, other, start_index, end_index) ==
    Len(self) = 0 \/ end_index > Len(other)

\* TSP::cross_over with the drawn indices: a new path of self's length,
\* self's entries outside [start_index, end_index) and other's inside.
cross_over_without_suffix(self, other, start_index, end_index) ==
    [i \in 1..end_index |->
        IF i - 1 >= start_index THEN other[i] ELSE self[i]]

cross_over_after_start(self, other, start_index, end_index) ==
    [i \in 1..Len(self) |->
        IF i - 1 > start_index /\ i - 1 < end_index THEN other[i] ELSE self[i]]

cross_over(self, other, start_index, end_index) ==
    [i \in 1..Len(self) |->
        IF i - 1 >= start_index /\ i - 1 < end_index THEN other[i] ELSE self[i]]

\* The Vec the child's path lives in: let mut new_path = vec![0; len] is a
\* Vec of its own, moved into the TSP returned.
cross_over_buffer_of_self == "self"

cross_over_buffer == "new"

\* ------------------------------------------------ genetic_algorithm.rs

\* The closure of par_windows(2).map: first is a clone of window[0]; with a
\* draw below the crossover rate the child is first.cross_over(second) with
\* the drawn indices, otherwise a clone of first.
window_child_cloning_second(first, second, crossover_rate, draw, start_index, end_index) ==
    IF draw < crossover_rate
    THEN IF cross_over_panics(first, second, start_index, end_index)
         THEN Panicked
         ELSE Returned(cross_over(first, second, start_index, end_index))
    ELSE Returned(second)

window_child(first, second, crossover_rate, draw, start_index, end_index) ==
    IF draw < crossover_rate
    THEN IF cross_over_panics(first, second, start_index, end_index)
         THEN Panicked
         ELSE Returned(cross_over(first, second, start_index, end_index))
    ELSE Returned(first)

\* The closure of par_iter_mut().for_each: with a draw below the mutation
\* rate the child is mutated in place with the drawn positions.
mutate_child(child, mutation_rate, draw, first_index, second_index) ==
    IF draw < mutation_rate
    THEN IF mutate_panics(child)
         THEN Panicked
         ELSE Returned(mutate(child, first_index, second_index))
    ELSE Returned(child)

\* Every outcome one window can have, over the draws of both closures.
WindowChildren(first, second, crossover_rate, mutation_rate) ==
    UNION {
      IF crossed.panic THEN {Panicked}
      ELSE {mutate_child(crossed.value, mutation_rate, m, e[1], e[2]) :
              m \in Draws, e \in MutateDraws(crossed.value)} :
      crossed \in {window_child(first, second, crossover_rate, c, d[1], d[2]) :
                     c \in Draws, d \in CrossOverDraws(first)}}

\* slice.par_windows(2): the overlapping pairs of neighbours.
par_windows_disjoint(slice) ==
    [i \in 1..(Len(slice) \div 2) |-> <<slice[2 * i - 1], slice[2 * i]>>]

par_windows(slice) == [i \in 1..(Len(slice) - 1) |-> <<slice[i], slice[i + 1]>>]

\* The new sub-population of every outcome of the windows' closures,
\* extended by the elite; a panic of one closure is a panic of the whole.
extend_children_mutating_elite(windows, elite, crossover_rate, mutation_rate) ==
    {IF \E i \in 1..Len(children) : children[i].panic
     THEN Panicked
     ELSE Returned([i \in 1..Len(children) |-> children[i].value]
                   \o [i \in 1..Len(elite) |->
                          IF mutation_rate > 0 /\ Len(elite[i]) > 1
                          THEN mutate(elite[i], 0, 1) ELSE elite[i]]) :
       children \in SeqProduct(
           [i \in 1..Len(windows) |->
               WindowChildren(windows[i][1], windows[i][2],
                              crossover_rate, mutation_rate)])}

extend_children(windows, elite, crossover_rate, mutation_rate) ==
    {IF \E i \in 1..Len(children) : children[i].panic
     THEN Panicked
     ELSE Returned([i \in 1..Len(children) |-> children[i].value] \o elite) :
       children \in SeqProduct(
           [i \in 1..Len(windows) |->
               WindowChildren(windows[i][1], windows[i][2],
                              crossover_rate, mutation_rate)])}

\* par_sort_unstable_by(|a, b| a.0.total_cmp(&b.0)): every ordering of the
\* (fitness, individual) pairs that is ascending in fitness; which one of
\* several with equal fitness is returned is not fixed by an unstable sort.
par_sort_unstable_by_noop(evaluated) == {evaluated}

par_sort_unstable_by(evaluated) ==
    {[i \in 1..Len(evaluated) |-> evaluated[p[i]]] :
       p \in {q \in Perms(Len(evaluated)) :
                \A i \in 1..(Len(evaluated) - 1) :
                    evaluated[q[i]][1] <= evaluated[q[i + 1]][1]}}

\* evaluated_population[..=elite_size] of ga_iteraration: the individuals
\* ranked 0 to elite_size, both included.
ga_elite_slice_exclusive(evaluated_population, elite_size) ==
    [i \in 1..elite_size |-> evaluated_population[i][2]]

ga_elite_slice(evaluated_population, elite_size) ==
    [i \in 1..(elite_size + 1) |-> evaluated_population[i][2]]

\* evaluated_population[elite_size..] of ga_iteraration.
ga_rest_slice(evaluated_population, elite_size) ==
    [i \in 1..(Len(evaluated_population) - elite_size) |->
        evaluated_population[elite_size + i][2]]

\* The outcomes of building the new population from one sorted evaluation:
\* the mutated children of the windows over [elite_size..], extended by
\* [..=elite_size]. A slice panics when elite_size is out of range.
ga_new_population(evaluated_population, mutation_rate, crossover_rate, elite_size) ==
    IF elite_size >= Len(evaluated_population)
    THEN {Panicked}
    ELSE extend_children(
             par_windows(ga_rest_slice(evaluated_population, elite_size)),
             ga_elite_slice(evaluated_population, elite_size),
             crossover_rate, mutation_rate)

\* The evaluation of ga_iteraration: one (fitness, individual) pair per
\* individual, in the population's order.
ga_evaluated_population(population) ==
    [i \in 1..Len(population) |->
        <<fitness(population[i], graph_weights), population[i]>>]

\* ga_iteraration: evaluate every individual, sort by fitness, build the new
\* population and assert that it has the size of the old one. The set of
\* outcomes over the draws and the choices of the sort; a panic of fitness,
\* of a slice, of a closure or of the assertion is a panic of the call.
ga_iteraration(population, mutation_rate, crossover_rate, elite_size) ==
    IF \E i \in 1..Len(population) : fitness_panics(population[i], graph_weights)
    THEN {Panicked}
    ELSE LET evaluated == ga_evaluated_population(population)
         IN  UNION {
               {IF ~new_population.panic
                   /\ Len(new_population.value) = Len(population)
                THEN new_population
                ELSE Panicked :
                  new_population \in
                      ga_new_population(sorted, mutation_rate, crossover_rate, elite_size)} :
               sorted \in par_sort_unstable_by(evaluated)}

\* The draws of one window's two closures: the crossover sample, the two
\* indices of cross_over, the mutation sample and the two positions of
\* mutate (the paths of a population have the length of first).
WindowDraws(first) ==
    {<<c, d[1], d[2], m, e[1], e[2]>> :
       c \in Draws, d \in CrossOverDraws(first),
       m \in Draws, e \in MutateDraws(first)}

\* ga_iteraration with what is not its argument made one: sorted is what
\* par_sort_unstable_by leaves in evaluated_population, and draws[i] are
\* the draws of window i (WindowDraws). One outcome, not a set.
ga_iteraration_with(population, mutation_rate, crossover_rate, elite_size, sorted, draws) ==
    IF \E i \in 1..Len(population) : fitness_panics(population[i], graph_weights)
    THEN Panicked
    ELSE IF elite_size >= Len(sorted)
    THEN Panicked
    ELSE LET windows == par_windows(ga_rest_slice(sorted, elite_size))
             crossed == [i \in 1..Len(windows) |->
                           window_child(windows[i][1], windows[i][2],
                                        crossover_rate, draws[i][1],
                                        draws[i][2], draws[i][3])]
             children == [i \in 1..Len(windows) |->
                            IF crossed[i].panic THEN Panicked
                            ELSE mutate_child(crossed[i].value, mutation_rate,
                                              draws[i][4], draws[i][5],
                                              draws[i][6])]
             new_population == [i \in 1..Len(windows) |-> children[i].value]
                                 \o ga_elite_slice(sorted, elite_size)
         IN  IF \E i \in 1..Len(windows) : children[i].panic
             THEN Panicked
             ELSE IF Len(new_population) # Len(population)
             THEN Panicked
             ELSE Returned(new_population)

\* ------------------------------------------------ main.rs: the messages

\* enum Message, by variant index in declaration order.
Terminate == [tag |-> "Terminate", payload |-> <<>>]
Population(solutions) == [tag |-> "Population", payload |-> solutions]
MapCreation(map) == [tag |-> "MapCreation", payload |-> map]
EvaluatedPopulation(evaluated) == [tag |-> "EvaluatedPopulation", payload |-> evaluated]

VariantIndex(tag) ==
    CASE tag = "Terminate" -> 0
      [] tag = "Population" -> 1
      [] tag = "MapCreation" -> 2
      [] tag = "EvaluatedPopulation" -> 3

\* A Vec of words: its length, then its entries.
write_vec(v) == <<Len(v)>> \o v

\* bincode::serialize of a Message: the variant index, then the payload: a
\* Vec is its length followed by its elements, a TspSolution is its path, a
\* (f32, TspSolution) pair is the fitness followed by the path.
serialize(message) ==
    CASE message.tag = "Terminate" -> <<VariantIndex(message.tag)>>
      [] message.tag \in {"Population", "MapCreation"} ->
            <<VariantIndex(message.tag), Len(message.payload)>>
            \o Concat([i \in 1..Len(message.payload) |-> write_vec(message.payload[i])])
      [] message.tag = "EvaluatedPopulation" ->
            <<VariantIndex(message.tag), Len(message.payload)>>
            \o Concat([i \in 1..Len(message.payload) |->
                         <<message.payload[i][1]>> \o write_vec(message.payload[i][2])])

DecodeError == [ok |-> FALSE, value |-> <<>>, next |-> 0]

\* Reads count Vecs of words from position pos on.
RECURSIVE read_vecs(_, _, _)
read_vecs(buffer, pos, count) ==
    IF count = 0 THEN [ok |-> TRUE, value |-> <<>>, next |-> pos]
    ELSE IF pos > Len(buffer) THEN DecodeError
    ELSE IF pos + buffer[pos] > Len(buffer) THEN DecodeError
    ELSE LET rest == read_vecs(buffer, pos + buffer[pos] + 1, count - 1)
         IN  IF rest.ok
             THEN [ok |-> TRUE,
                   value |-> <<SubSeq(buffer, pos + 1, pos + buffer[pos])>> \o rest.value,
                   next |-> rest.next]
             ELSE DecodeError

\* Reads count (fitness, path) pairs from position pos on.
RECURSIVE read_evaluated(_, _, _)
read_evaluated(buffer, pos, count) ==
    IF count = 0 THEN [ok |-> TRUE, value |-> <<>>, next |-> pos]
    ELSE IF pos + 1 > Len(buffer) THEN DecodeError
    ELSE IF pos + 1 + buffer[pos + 1] > Len(buffer) THEN DecodeError
    ELSE LET rest == read_evaluated(buffer, pos + buffer[pos + 1] + 2, count - 1)
         IN  IF rest.ok
             THEN [ok |-> TRUE,
                   value |-> << <<buffer[pos],
                                  SubSeq(buffer, pos + 2, pos + 1 + buffer[pos + 1])>> >>
                             \o rest.value,
                   next |-> rest.next]
             ELSE DecodeError

\* bincode::deserialize::<Message>: [ok, message]; an unknown variant index
\* or a buffer that ends early is an error, bytes after the value are not.
deserialize(buffer) ==
    IF Len(buffer) = 0 THEN [ok |-> FALSE, message |-> Terminate]
    ELSE IF buffer[1] = 0 THEN [ok |-> TRUE, message |-> Terminate]
    ELSE IF buffer[1] \notin {1, 2, 3} \/ Len(buffer) < 2
         THEN [ok |-> FALSE, message |-> Terminate]
    ELSE LET read == IF buffer[1] = 3
                     THEN read_evaluated(buffer, 3, buffer[2])
                     ELSE read_vecs(buffer, 3, buffer[2])
         IN  IF ~read.ok THEN [ok |-> FALSE, message |-> Terminate]
             ELSE [ok |-> TRUE,
                   message |-> CASE buffer[1] = 1 -> Population(read.value)
                                 [] buffer[1] = 2 -> MapCreation(read.value)
                                 [] buffer[1] = 3 -> EvaluatedPopulation(read.value)]

\* Whether a decoding result is Ok(Message::<tag>(..)), as the if let
\* patterns of main test it.
IsOk(decoded, tag) == decoded.ok /\ decoded.message.tag = tag

\* ------------------------------------------------ main.rs: the controller's step

\* The number of fitness values the controller prints: eval_pop[0..10],
\* scaled with the population.
BEST_ONES == 2

\* tsp_population[..=ELITE]: the individuals ranked 0 to ELITE, both included.
main_elite_slice_shifted(tsp_population) ==
    [i \in 1..(ELITE + 1) |-> tsp_population[i + 1][2]]

main_elite_slice(tsp_population) ==
    [i \in 1..(ELITE + 1) |-> tsp_population[i][2]]

\* tsp_population[ELITE..].
main_rest_slice_after_elite(tsp_population) ==
    [i \in 1..(Len(tsp_population) - ELITE - 1) |-> tsp_population[ELITE + 1 + i][2]]

main_rest_slice(tsp_population) ==
    [i \in 1..(Len(tsp_population) - ELITE) |-> tsp_population[ELITE + i][2]]

\* The outcomes of building the new population from the sorted eval_pop: the
\* mutated children of the windows over [ELITE..], extended by [..=ELITE].
main_new_population(tsp_population) ==
    IF ELITE >= Len(tsp_population)
    THEN {Panicked}
    ELSE extend_children(
             par_windows(main_rest_slice(tsp_population)),
             main_elite_slice(tsp_population),
             CROSSOVER_RATE, MUTATION_RATE)

\* The controller's reproduction on the sorted eval_pop with the draws of
\* its windows made arguments: main.rs builds the children of the windows
\* over [ELITE..], mutates them and extends them by [..=ELITE]. One outcome.
main_new_population_with(tsp_population, draws) ==
    IF ELITE >= Len(tsp_population)
    THEN Panicked
    ELSE LET windows == par_windows(main_rest_slice(tsp_population))
             crossed == [i \in 1..Len(windows) |->
                           window_child(windows[i][1], windows[i][2],
                                        CROSSOVER_RATE, draws[i][1],
                                        draws[i][2], draws[i][3])]
             children == [i \in 1..Len(windows) |->
                            IF crossed[i].panic THEN Panicked
                            ELSE mutate_child(crossed[i].value, MUTATION_RATE,
                                              draws[i][4], draws[i][5],
                                              draws[i][6])]
         IN  IF \E i \in 1..Len(windows) : children[i].panic
             THEN Panicked
             ELSE Returned([i \in 1..Len(windows) |-> children[i].value]
                           \o main_elite_slice(tsp_population))

\* The fitness values of eval_pop[0..BEST_ONES]; the slice panics on a
\* shorter eval_pop.
best_ones_panics(eval_pop_sorted) == Len(eval_pop_sorted) < BEST_ONES

best_ones(eval_pop_sorted) == [k \in 1..BEST_ONES |-> eval_pop_sorted[k][1]]

\* itertools chunks(size): consecutive groups of size elements, the last one
\* shorter when size does not divide the length.
chunks_overlapping(solutions, size) ==
    [c \in 1..((Len(solutions) + size - 1) \div size) |->
        SubSeq(solutions, (c - 1) * (size - 1) + 1,
               Min((c - 1) * (size - 1) + size, Len(solutions)))]

chunks(solutions, size) ==
    [c \in 1..((Len(solutions) + size - 1) \div size) |->
        SubSeq(solutions, (c - 1) * size + 1, Min(c * size, Len(solutions)))]

\* ga_evaluate_population as the worker uses it: one (fitness, individual)
\* pair per individual.
ga_evaluate_population(population, map) ==
    [k \in 1..Len(population) |-> <<fitness(population[k], map), population[k]>>]

\* initialize(): NUMBER_OF_INDIVIDUALS_PER_POPULATION shuffled paths. The
\* populations a run starts from here alternate the identity path rotated
\* by one with any one shuffle.
InitialPopulations ==
    {[k \in 1..NUMBER_OF_INDIVIDUALS_PER_POPULATION |->
         IF k % 2 = 1 THEN [i \in 1..N |-> i % N] ELSE b] : b \in ValidPaths}

\* ------------------------------------------------ main.rs: the processes

VARIABLES
    size,          \* world.size(): the controller and size - 1 workers
    synchronous,   \* whether the transport completes a send or a broadcast
                   \* only once it is received (otherwise it may buffer)
    pc0,           \* the controller's position in main
    iteration,     \* the loop counter i of for i in 0..ITERATIONS
    next,          \* the chunk index or the rank the controller is at
    tsp,           \* the controller's population: a sequence of paths
    eval_pop,      \* the (fitness, path) pairs gathered so far
    reported,      \* the best fitness values last printed
    pc,            \* pc[w]: worker w's position in main
    bytes,         \* bytes[w]: the length worker w got from the first broadcast
    map,           \* map[w]: the distance matrix worker w decoded
    bcast,         \* the payloads the root has broadcast, in order
    chan,          \* chan[w]: buffers sent by the controller to worker w
    reply,         \* reply[w]: buffers sent by worker w to the controller
    scattered,     \* the <<rank, chunk>> sends of the current scatter
    sent_pop,      \* sent_pop[w]: Population messages sent to worker w
    recv_pop,      \* recv_pop[w]: Population messages worker w received
    sent_eval,     \* sent_eval[w]: EvaluatedPopulation messages w sent
    recv_eval,     \* recv_eval[w]: EvaluatedPopulation messages gathered from w
    sent_term,     \* sent_term[w]: Terminate messages sent to worker w
    recv_term,     \* recv_term[w]: Terminate messages worker w received
    ga_call,       \* the arguments of a call of the generation step
    ga_result,     \* what the call returned
    org_self,      \* the path of the organism an operation is called on
    org_other,     \* the path of the second parent
    org_call,      \* the operation called and its draws
    org_result,    \* what the operation returned
    org_buffer     \* the Vec that holds the returned path: that of self
                   \* ("self"), that of the second parent ("other"), or a
                   \* Vec of its own ("new"); "none" when no path is returned

ctrl_vars == <<pc0, iteration, next, tsp, eval_pop, reported>>
worker_vars == <<pc, bytes, map>>
net_vars == <<bcast, chan, reply>>
count_vars == <<scattered, sent_pop, recv_pop, sent_eval, recv_eval, sent_term, recv_term>>
main_vars == <<size, synchronous, ctrl_vars, worker_vars, net_vars, count_vars>>
ga_vars == <<ga_call, ga_result>>
org_vars == <<org_self, org_other, org_call, org_result, org_buffer>>
vars == <<main_vars, ga_vars, org_vars>>

\* The ranks of the workers: every rank but ROOT_PROCESS.
Workers == (ROOT_PROCESS + 1)..(size - 1)

\* let portions = NUMBER_OF_INDIVIDUALS_PER_POPULATION / ((size - 1) as usize).
portions == NUMBER_OF_INDIVIDUALS_PER_POPULATION \div (size - 1)

\* The last rank of the gathering range (1..size).
gather_last_short == IF size > 2 THEN size - 2 ELSE size - 1

gather_last == size - 1

\* The last rank of the terminating range (1..size).
terminate_last_short == IF size > 2 THEN size - 2 ELSE size - 1

terminate_last == size - 1

\* Where a worker starts: at the two broadcasts, before its loop.
worker_start_in_loop == "receive"

worker_start == "bcast_len"

\* Where a worker goes on Ok(Message::Terminate): break.
worker_on_terminate_continue == "receive"

worker_on_terminate == "done"

\* Where the controller goes after the loop: the final scatter and gather.
after_loop_terminate == "terminate"

after_loop == "scatter"

\* The buffers a worker sends to the root for one Population message: the
\* serialized EvaluatedPopulation, in one send.
worker_reply_twice(evaluated) ==
    <<serialize(EvaluatedPopulation(evaluated)),
      serialize(EvaluatedPopulation(evaluated))>>

worker_reply(evaluated) == <<serialize(EvaluatedPopulation(evaluated))>>

\* A blocking send or broadcast returns once its buffer is received; a
\* transport that buffers may let it return before.
SendCompletes(received) == ~synchronous \/ received

\* No call of the generation step, no call of an organism's operation.
IdleGa == [population |-> <<>>, mutation_rate |-> 0, crossover_rate |-> 0,
           elite_size |-> 0]
NoResult == [op |-> "none", panic |-> FALSE, value |-> <<>>]
IdleOrg == [op |-> "none", first |-> 0, second |-> 0]

InitMain ==
    /\ size \in 2..(MaxWorkers + 1)
    /\ synchronous \in BOOLEAN
    /\ pc0 = "bcast_len"
    /\ iteration = 0
    /\ next = ROOT_PROCESS + 1
    /\ tsp \in InitialPopulations
    /\ eval_pop = <<>>
    /\ reported = <<>>
    /\ pc = [w \in Workers |-> worker_start]
    /\ bytes = [w \in Workers |-> 0]
    /\ map = [w \in Workers |-> <<>>]
    /\ bcast = <<>>
    /\ chan = [w \in Workers |-> <<>>]
    /\ reply = [w \in Workers |-> <<>>]
    /\ scattered = <<>>
    /\ sent_pop = [w \in Workers |-> 0]
    /\ recv_pop = [w \in Workers |-> 0]
    /\ sent_eval = [w \in Workers |-> 0]
    /\ recv_eval = [w \in Workers |-> 0]
    /\ sent_term = [w \in Workers |-> 0]
    /\ recv_term = [w \in Workers |-> 0]

InitGaIdle == ga_call = IdleGa /\ ga_result = NoResult

InitOrgIdle ==
    /\ org_self = <<>>
    /\ org_other = <<>>
    /\ org_call = IdleOrg
    /\ org_result = NoResult
    /\ org_buffer = "none"

Init == InitMain /\ InitGaIdle /\ InitOrgIdle

\* ---- the controller (rank ROOT_PROCESS)

\* The serialized MapCreation message of the controller's map.
serialized_map == serialize(MapCreation(graph_weights))

\* broadcast_into(&mut serialized.len()).
CtrlBroadcastLen ==
    /\ pc0 = "bcast_len"
    /\ bcast' = Append(bcast, <<Len(serialized_map)>>)
    /\ pc0' = "bcast_len_ret"
    /\ UNCHANGED <<size, synchronous, iteration, next, tsp, eval_pop, reported,
                   worker_vars, chan, reply, count_vars, ga_vars, org_vars>>

\* broadcast_into(&mut serialized).
CtrlBroadcastMap ==
    /\ pc0 = "bcast_map"
    /\ bcast' = Append(bcast, serialized_map)
    /\ pc0' = "bcast_map_ret"
    /\ UNCHANGED <<size, synchronous, iteration, next, tsp, eval_pop, reported,
                   worker_vars, chan, reply, count_vars, ga_vars, org_vars>>

\* A broadcast returns at the root; after the second one the loop begins.
CtrlBroadcastReturn ==
    /\ pc0 \in {"bcast_len_ret", "bcast_map_ret"}
    /\ IF pc0 = "bcast_len_ret"
       THEN /\ SendCompletes(\A w \in Workers : pc[w] # "bcast_len")
            /\ pc0' = "bcast_map"
       ELSE /\ SendCompletes(\A w \in Workers : pc[w] \notin {"bcast_len", "bcast_map"})
            /\ pc0' = "scatter"
    /\ UNCHANGED <<size, synchronous, iteration, next, tsp, eval_pop, reported,
                   worker_vars, net_vars, count_vars, ga_vars, org_vars>>

\* The chunks of the current population's solutions.
current_chunks == chunks(tsp, portions)

\* One step of the for_each over the enumerated chunks: serialize the chunk
\* of index next - 1 as a Population message and send it to rank next.
\* chunks panics on a size of 0, and a rank that is no process of the world
\* aborts the controller.
CtrlScatterSend ==
    /\ pc0 = "scatter"
    /\ IF portions = 0 \/ next > size - 1
       THEN /\ pc0' = "panicked"
            /\ UNCHANGED <<chan, scattered, sent_pop>>
       ELSE /\ chan' = [chan EXCEPT ![next] =
                           Append(@, serialize(Population(current_chunks[next])))]
            /\ scattered' = Append(scattered, <<next, current_chunks[next]>>)
            /\ sent_pop' = [sent_pop EXCEPT ![next] = @ + 1]
            /\ pc0' = "scatter_ret"
    /\ UNCHANGED <<size, synchronous, iteration, next, tsp, eval_pop, reported,
                   worker_vars, bcast, reply, sent_eval, recv_eval, sent_term,
                   recv_term, recv_pop, ga_vars, org_vars>>

\* The send of a chunk returns: on to the next chunk, or to the gathering.
CtrlScatterReturn ==
    /\ pc0 = "scatter_ret"
    /\ SendCompletes(chan[next] = <<>>)
    /\ IF next < Len(current_chunks)
       THEN /\ pc0' = "scatter"
            /\ next' = next + 1
       ELSE /\ pc0' = "gather"
            /\ next' = ROOT_PROCESS + 1
    /\ UNCHANGED <<size, synchronous, iteration, tsp, eval_pop, reported,
                   worker_vars, net_vars, count_vars, ga_vars, org_vars>>

\* One step of (1..size).map(receive).reduce(append): receive from rank
\* next, panic unless it decodes to an EvaluatedPopulation, append it.
CtrlGather ==
    /\ pc0 = "gather"
    /\ reply[next] # <<>>
    /\ reply' = [reply EXCEPT ![next] = Tail(@)]
    /\ recv_eval' = [recv_eval EXCEPT ![next] = @ + 1]
    /\ LET message == deserialize(Head(reply[next]))
       IN  IF IsOk(message, "EvaluatedPopulation")
           THEN /\ eval_pop' = eval_pop \o message.message.payload
                /\ IF next = gather_last
                   THEN pc0' = "select" /\ next' = ROOT_PROCESS + 1
                   ELSE pc0' = "gather" /\ next' = next + 1
           ELSE /\ pc0' = "panicked"
                /\ UNCHANGED <<eval_pop, next>>
    /\ UNCHANGED <<size, synchronous, iteration, tsp, reported, worker_vars,
                   bcast, chan, scattered, sent_pop, recv_pop, sent_eval,
                   sent_term, recv_term, ga_vars, org_vars>>

\* The rest of a loop iteration: sort eval_pop, print the best ones, build
\* the new population and make it the current one.
CtrlSelectAndReproduce ==
    /\ pc0 = "select"
    /\ iteration < ITERATIONS
    /\ \E sorted \in par_sort_unstable_by(eval_pop) :
         IF best_ones_panics(sorted)
         THEN /\ pc0' = "panicked"
              /\ UNCHANGED <<iteration, tsp, eval_pop, reported, scattered>>
         ELSE \E new_population \in main_new_population(sorted) :
                /\ reported' = best_ones(sorted)
                /\ IF new_population.panic
                   THEN /\ pc0' = "panicked"
                        /\ UNCHANGED <<iteration, tsp, eval_pop, scattered>>
                   ELSE /\ tsp' = new_population.value
                        /\ iteration' = iteration + 1
                        /\ eval_pop' = <<>>
                        /\ scattered' = <<>>
                        /\ pc0' = IF iteration + 1 < ITERATIONS
                                  THEN "scatter" ELSE after_loop
    /\ UNCHANGED <<size, synchronous, next, worker_vars, net_vars, sent_pop,
                   recv_pop, sent_eval, recv_eval, sent_term, recv_term,
                   ga_vars, org_vars>>

\* After the final gathering: sort eval_pop and print the best ones.
CtrlFinalReport ==
    /\ pc0 = "select"
    /\ iteration = ITERATIONS
    /\ \E sorted \in par_sort_unstable_by(eval_pop) :
         IF best_ones_panics(sorted)
         THEN pc0' = "panicked" /\ UNCHANGED reported
         ELSE pc0' = "terminate" /\ reported' = best_ones(sorted)
    /\ UNCHANGED <<size, synchronous, iteration, next, tsp, eval_pop, worker_vars,
                   net_vars, count_vars, ga_vars, org_vars>>

\* One step of (1..size).for_each: send Terminate to rank next.
CtrlTerminateSend ==
    /\ pc0 = "terminate"
    /\ chan' = [chan EXCEPT ![next] = Append(@, serialize(Terminate))]
    /\ sent_term' = [sent_term EXCEPT ![next] = @ + 1]
    /\ pc0' = "terminate_ret"
    /\ UNCHANGED <<size, synchronous, iteration, next, tsp, eval_pop, reported,
                   worker_vars, bcast, reply, scattered, sent_pop, recv_pop,
                   sent_eval, recv_eval, recv_term, ga_vars, org_vars>>

\* The send of a Terminate returns: on to the next rank, or main returns.
CtrlTerminateReturn ==
    /\ pc0 = "terminate_ret"
    /\ SendCompletes(chan[next] = <<>>)
    /\ IF next = terminate_last
       THEN pc0' = "done" /\ UNCHANGED next
       ELSE pc0' = "terminate" /\ next' = next + 1
    /\ UNCHANGED <<size, synchronous, iteration, tsp, eval_pop, reported,
                   worker_vars, net_vars, count_vars, ga_vars, org_vars>>

Controller ==
    \/ CtrlBroadcastLen
    \/ CtrlBroadcastMap
    \/ CtrlBroadcastReturn
    \/ CtrlScatterSend
    \/ CtrlScatterReturn
    \/ CtrlGather
    \/ CtrlSelectAndReproduce
    \/ CtrlFinalReport
    \/ CtrlTerminateSend
    \/ CtrlTerminateReturn

\* ---- a worker (rank w)

\* broadcast_into(&mut bytes): the length of the buffer to come.
WorkerBroadcastLen(w) ==
    /\ pc[w] = "bcast_len"
    /\ Len(bcast) >= 1
    /\ bytes' = [bytes EXCEPT ![w] = bcast[1][1]]
    /\ pc' = [pc EXCEPT ![w] = "bcast_map"]
    /\ UNCHANGED <<size, synchronous, ctrl_vars, map, net_vars, count_vars,
                   ga_vars, org_vars>>

\* broadcast_into(&mut buffer) into a buffer of bytes[w] words, then decode:
\* with a MapCreation the worker enters its loop, otherwise it is done.
WorkerBroadcastMap(w) ==
    /\ pc[w] = "bcast_map"
    /\ Len(bcast) >= 2
    /\ LET message == deserialize(SubSeq(bcast[2], 1, bytes[w]))
       IN  IF IsOk(message, "MapCreation")
           THEN /\ map' = [map EXCEPT ![w] = message.message.payload]
                /\ pc' = [pc EXCEPT ![w] = "receive"]
           ELSE /\ pc' = [pc EXCEPT ![w] = "done"]
                /\ UNCHANGED map
    /\ UNCHANGED <<size, synchronous, ctrl_vars, bytes, net_vars, count_vars,
                   ga_vars, org_vars>>

\* One pass of the loop: receive a buffer from the root and decode it. On
\* Terminate, break. On a Population, evaluate it on the worker's map and
\* send the EvaluatedPopulation to the root. On anything else, loop.
WorkerReceive(w) ==
    /\ pc[w] = "receive"
    /\ chan[w] # <<>>
    /\ chan' = [chan EXCEPT ![w] = Tail(@)]
    /\ \E message \in {deserialize(Head(chan[w]))} :
           IF IsOk(message, "Terminate")
           THEN /\ pc' = [pc EXCEPT ![w] = worker_on_terminate]
                /\ recv_term' = [recv_term EXCEPT ![w] = @ + 1]
                /\ UNCHANGED <<reply, recv_pop, sent_eval>>
           ELSE IF IsOk(message, "Population")
           THEN /\ recv_pop' = [recv_pop EXCEPT ![w] = @ + 1]
                /\ UNCHANGED recv_term
                /\ IF \E k \in 1..Len(message.message.payload) :
                          fitness_panics(message.message.payload[k], map[w])
                   THEN /\ pc' = [pc EXCEPT ![w] = "panicked"]
                        /\ UNCHANGED <<reply, sent_eval>>
                   ELSE \E sent \in {worker_reply(
                                        ga_evaluate_population(
                                            message.message.payload, map[w]))} :
                          /\ reply' = [reply EXCEPT ![w] = @ \o sent]
                          /\ sent_eval' = [sent_eval EXCEPT ![w] = @ + Len(sent)]
                          /\ pc' = [pc EXCEPT ![w] = "reply_ret"]
           ELSE UNCHANGED <<pc, reply, recv_pop, recv_term, sent_eval>>
    /\ UNCHANGED <<size, synchronous, ctrl_vars, bytes, map, bcast, scattered,
                   sent_pop, recv_eval, sent_term, ga_vars, org_vars>>

\* The send of the EvaluatedPopulation returns: back to the top of the loop.
WorkerSendReturn(w) ==
    /\ pc[w] = "reply_ret"
    /\ SendCompletes(reply[w] = <<>>)
    /\ pc' = [pc EXCEPT ![w] = "receive"]
    /\ UNCHANGED <<size, synchronous, ctrl_vars, bytes, map, net_vars, count_vars,
                   ga_vars, org_vars>>

Worker(w) ==
    \/ WorkerBroadcastLen(w)
    \/ WorkerBroadcastMap(w)
    \/ WorkerReceive(w)
    \/ WorkerSendReturn(w)

Next == Controller \/ \E w \in Workers : Worker(w)

Spec == Init /\ [][Next]_vars

\* ------------------------------------------------ a transport that can deliver anything

\* The variant words a buffer in flight can be damaged to: those of
\* MapCreation and of EvaluatedPopulation, and one that is no variant's.
DamagedVariants == {VariantIndex("MapCreation"), VariantIndex("EvaluatedPopulation"), 7}

\* A buffer with its variant word replaced.
damaged(buffer, variant) == [buffer EXCEPT ![1] = variant]

\* The buffer at the head of worker w's channel, so far a Population or a
\* Terminate as the controller sent it, is damaged before receive_vec
\* returns it.
NetDamageChan(w) ==
    /\ chan[w] # <<>>
    /\ Head(chan[w])[1] \in {VariantIndex("Terminate"), VariantIndex("Population")}
    /\ \E variant \in DamagedVariants :
         chan' = [chan EXCEPT ![w] = <<damaged(Head(@), variant)>> \o Tail(@)]
    /\ UNCHANGED <<size, synchronous, ctrl_vars, worker_vars, bcast, reply,
                   count_vars, ga_vars, org_vars>>

\* The same for the reply of worker w that the controller is to receive.
NetDamageReply(w) ==
    /\ reply[w] # <<>>
    /\ Head(reply[w])[1] = VariantIndex("EvaluatedPopulation")
    /\ \E variant \in DamagedVariants \ {VariantIndex("EvaluatedPopulation")} :
         reply' = [reply EXCEPT ![w] = <<damaged(Head(@), variant)>> \o Tail(@)]
    /\ UNCHANGED <<size, synchronous, ctrl_vars, worker_vars, bcast, chan,
                   count_vars, ga_vars, org_vars>>

\* The same for the broadcast buffer, which keeps its length, while a
\* worker has yet to take it.
NetDamageBroadcast ==
    /\ Len(bcast) = 2
    /\ \E w \in Workers : pc[w] \in {"bcast_len", "bcast_map"}
    /\ bcast[2][1] = VariantIndex("MapCreation")
    /\ \E variant \in DamagedVariants \ {VariantIndex("MapCreation")} :
         bcast' = [bcast EXCEPT ![2] = damaged(@, variant)]
    /\ UNCHANGED <<size, synchronous, ctrl_vars, worker_vars, chan, reply,
                   count_vars, ga_vars, org_vars>>

NextFaulty ==
    \/ Next
    \/ \E w \in Workers : NetDamageChan(w)
    \/ \E w \in Workers : NetDamageReply(w)
    \/ NetDamageBroadcast

SpecFaulty == Init /\ [][NextFaulty]_vars

\* ------------------------------------------------ the generation step alone

\* No process runs: the state of main while a function is called alone.
InitMainIdle ==
    /\ size = 2
    /\ synchronous = FALSE
    /\ pc0 = "idle"
    /\ iteration = 0
    /\ next = ROOT_PROCESS + 1
    /\ tsp = <<>>
    /\ eval_pop = <<>>
    /\ reported = <<>>
    /\ pc = [w \in Workers |-> "idle"]
    /\ bytes = [w \in Workers |-> 0]
    /\ map = [w \in Workers |-> <<>>]
    /\ bcast = <<>>
    /\ chan = [w \in Workers |-> <<>>]
    /\ reply = [w \in Workers |-> <<>>]
    /\ scattered = <<>>
    /\ sent_pop = [w \in Workers |-> 0]
    /\ recv_pop = [w \in Workers |-> 0]
    /\ sent_eval = [w \in Workers |-> 0]
    /\ recv_eval = [w \in Workers |-> 0]
    /\ sent_term = [w \in Workers |-> 0]
    /\ recv_term = [w \in Workers |-> 0]

\* Paths the individuals of a call are drawn from: the identity path, its
\* reverse, its rotation by one, and a path with a duplicated node.
SamplePaths ==
    {TspSolution_new(N),
     [i \in 1..N |-> N - i],
     [i \in 1..N |-> i % N],
     [i \in 1..N |-> IF i = 1 THEN 0 ELSE i - 2]}

\* A call of the generation step: a population of 1 to MaxPopulation
\* individuals, two rates, and an elite size up to the population's size.
InitGa ==
    /\ InitMainIdle
    /\ InitOrgIdle
    /\ \E m \in 1..MaxPopulation :
         \E population \in SeqsOfLen(SamplePaths, m) :
           ga_call \in [population : {population},
                        mutation_rate : Rates,
                        crossover_rate : Rates,
                        elite_size : 0..m]
    /\ ga_result = NoResult

\* The call ga_iteraration(population, mutation_rate, crossover_rate, elite_size).
GaIteraration ==
    /\ ga_result.op = "none"
    /\ \E outcome \in ga_iteraration(ga_call.population, ga_call.mutation_rate,
                                     ga_call.crossover_rate, ga_call.elite_size) :
         ga_result' = [op |-> "ga_iteraration", panic |-> outcome.panic,
                       value |-> outcome.value]
    /\ UNCHANGED <<main_vars, ga_call, org_vars>>

\* The controller's own reproduction (sort of the gathered pairs, then the
\* new population) on the same population, evaluated as the workers do; it
\* uses the program's rates and elite size.
MainReproduction ==
    /\ ga_result.op = "none"
    /\ ga_call.mutation_rate = MUTATION_RATE
    /\ ga_call.crossover_rate = CROSSOVER_RATE
    /\ ga_call.elite_size = ELITE
    /\ \E sorted \in par_sort_unstable_by(
                         ga_evaluate_population(ga_call.population, graph_weights)) :
         \E outcome \in main_new_population(sorted) :
           ga_result' = [op |-> "main", panic |-> outcome.panic,
                         value |-> outcome.value]
    /\ UNCHANGED <<main_vars, ga_call, org_vars>>

\* The ranking alone: the evaluated pairs of the population arrive merged
\* in some order (which worker evaluated which entries, and the order the
\* replies are appended in, decide it) and are sorted by fitness. The
\* result holds the merged sequence and the sorted one.
GaMergeAndSort ==
    /\ ga_result.op = "none"
    /\ \E order \in Perms(Len(ga_call.population)) :
         \E merged \in {[i \in 1..Len(ga_call.population) |->
                           ga_evaluated_population(ga_call.population)[order[i]]]} :
           \E sorted \in par_sort_unstable_by(merged) :
             ga_result' = [op |-> "sort", panic |-> FALSE,
                           value |-> <<merged, sorted>>]
    /\ UNCHANGED <<main_vars, ga_call, org_vars>>

\* The pairing alone: evaluated_population[elite_size..].par_windows(2).map
\* of ga_iteraration on one sorted evaluation, before any mutation. The
\* result holds the slice, the positions in it of each window's first and
\* second parent, each closure's draws and the child it returned. The slice
\* panics on an elite size above the population's.
GaWindows ==
    /\ ga_result.op = "none"
    /\ IF ga_call.elite_size > Len(ga_call.population)
       THEN ga_result' = [op |-> "windows", panic |-> TRUE, value |-> <<>>]
       ELSE \E sorted \in par_sort_unstable_by(
                               ga_evaluated_population(ga_call.population)) :
              \E rest \in {ga_rest_slice(sorted, ga_call.elite_size)} :
                \E parents \in {par_windows([i \in 1..Len(rest) |-> i])} :
                  \E draws \in SeqProduct([i \in 1..Len(parents) |->
                                   {<<c, d[1], d[2]>> :
                                      c \in Draws,
                                      d \in CrossOverDraws(rest[parents[i][1]])}]) :
                    ga_result' =
                      [op |-> "windows", panic |-> FALSE,
                       value |->
                         [rest |-> rest,
                          parents |-> parents,
                          draws |-> draws,
                          children |->
                            [i \in 1..Len(parents) |->
                               window_child(rest[parents[i][1]],
                                            rest[parents[i][2]],
                                            ga_call.crossover_rate,
                                            draws[i][1], draws[i][2],
                                            draws[i][3])]]]
    /\ UNCHANGED <<main_vars, ga_call, org_vars>>

\* The controller's reproduction and ga_iteraration side by side on one
\* population, with the program's rates and elite size: the same draws for
\* both, and the sort moving the pairs of both the same way (it compares
\* fitness values only, and both sequences hold the same ones in the same
\* order). The controller sorts the pairs the workers evaluated, merged in
\* rank order; ga_iteraration evaluates and sorts by itself. The result
\* holds the controller's outcome, then ga_iteraration's.
GaCompare ==
    /\ ga_result.op = "none"
    /\ ga_call.mutation_rate = MUTATION_RATE
    /\ ga_call.crossover_rate = CROSSOVER_RATE
    /\ ga_call.elite_size = ELITE
    /\ \E gathered \in {ga_evaluate_population(ga_call.population, graph_weights)},
          evaluated \in {ga_evaluated_population(ga_call.population)} :
         \E order \in {q \in Perms(Len(evaluated)) :
                          \A i \in 1..(Len(evaluated) - 1) :
                              evaluated[q[i]][1] <= evaluated[q[i + 1]][1]} :
           \E draws \in SeqProduct([i \in 1..(Len(evaluated) - ELITE - 1) |->
                                       WindowDraws(ga_call.population[1])]) :
             ga_result' =
               [op |-> "compare", panic |-> FALSE,
                value |->
                  <<main_new_population_with(
                        [i \in 1..Len(gathered) |-> gathered[order[i]]], draws),
                    ga_iteraration_with(
                        ga_call.population, MUTATION_RATE, CROSSOVER_RATE, ELITE,
                        [i \in 1..Len(evaluated) |-> evaluated[order[i]]], draws),
                    draws>>]
    /\ UNCHANGED <<main_vars, ga_call, org_vars>>

NextGa ==
    \/ GaIteraration
    \/ MainReproduction
    \/ GaMergeAndSort
    \/ GaWindows
    \/ GaCompare

SpecGa == InitGa /\ [][NextGa]_vars

\* ------------------------------------------------ an organism's operations alone

\* Paths an operation is called on: every sequence of up to N + 1 entries,
\* each a node or N, which is no node.
OrgPaths == UNION {SeqsOfLen(0..N, n) : n \in 0..(N + 1)}

\* Second parents: the sample paths, the empty path and a path of one node.
OrgOthers == SamplePaths \cup {<<>>, <<0>>}

InitOrg ==
    /\ InitMainIdle
    /\ InitGaIdle
    /\ org_self \in OrgPaths
    /\ org_other \in OrgOthers
    /\ org_call = IdleOrg
    /\ org_result = NoResult
    /\ org_buffer = "none"

\* self.mutate() with its two draws; org_self is the path before the call
\* and the result's value the path after it.
OrgMutate ==
    /\ org_call.op = "none"
    /\ \E d \in MutateDraws(org_self) :
         /\ org_call' = [op |-> "mutate", first |-> d[1], second |-> d[2]]
         /\ org_result' = IF mutate_panics(org_self)
                          THEN [op |-> "mutate", panic |-> TRUE, value |-> <<>>]
                          ELSE [op |-> "mutate", panic |-> FALSE,
                                value |-> mutate(org_self, d[1], d[2])]
         /\ org_buffer' = IF mutate_panics(org_self) THEN "none" ELSE "self"
    /\ UNCHANGED <<main_vars, ga_vars, org_self, org_other>>

\* self.cross_over(&other) with its two draws.
OrgCrossOver ==
    /\ org_call.op = "none"
    /\ \E d \in CrossOverDraws(org_self) :
         /\ org_call' = [op |-> "cross_over", first |-> d[1], second |-> d[2]]
         /\ org_result' = IF cross_over_panics(org_self, org_other, d[1], d[2])
                          THEN [op |-> "cross_over", panic |-> TRUE, value |-> <<>>]
                          ELSE [op |-> "cross_over", panic |-> FALSE,
                                value |-> cross_over(org_self, org_other, d[1], d[2])]
         /\ org_buffer' = IF cross_over_panics(org_self, org_other, d[1], d[2])
                          THEN "none" ELSE cross_over_buffer
    /\ UNCHANGED <<main_vars, ga_vars, org_self, org_other>>

\* child.mutate() on the child cross_over returned, as the generation step
\* does next: the swap writes the Vec that holds the child's path, and with
\* it whichever parent shares that Vec.
OrgMutateChild ==
    /\ org_call.op = "cross_over"
    /\ ~org_result.panic
    /\ \E d \in MutateDraws(org_result.value) :
         \E mutated \in {mutate(org_result.value, d[1], d[2])} :
           /\ org_call' = [op |-> "mutate_child", first |-> d[1], second |-> d[2]]
           /\ org_result' = [op |-> "mutate_child", panic |-> FALSE, value |-> mutated]
           /\ org_self' = IF org_buffer = "self" THEN mutated ELSE org_self
           /\ org_other' = IF org_buffer = "other" THEN mutated ELSE org_other
    /\ UNCHANGED <<main_vars, ga_vars, org_buffer>>

\* self.fitness() on the program's distance matrix.
OrgFitness ==
    /\ org_call.op = "none"
    /\ org_call' = [op |-> "fitness", first |-> 0, second |-> 0]
    /\ org_result' = IF fitness_panics(org_self, graph_weights)
                     THEN [op |-> "fitness", panic |-> TRUE, value |-> <<>>]
                     ELSE [op |-> "fitness", panic |-> FALSE,
                           value |-> <<fitness(org_self, graph_weights)>>]
    /\ UNCHANGED <<main_vars, ga_vars, org_self, org_other, org_buffer>>

NextOrg == OrgMutate \/ OrgCrossOver \/ OrgMutateChild \/ OrgFitness

SpecOrg == InitOrg /\ [][NextOrg]_vars

\* The weak fairness of every process: the controller and each worker
\* runs when it can (each is a process of its own under mpirun).
Fairness ==
    /\ WF_vars(Controller)
    /\ \A w \in 1..MaxWorkers : WF_vars(w \in Workers /\ Worker(w))

SpecFair == Spec /\ Fairness

\* ------------------------------------------------------------ the claims

IsPermutation(path) == Len(path) = N /\ Range(path) = Nodes

\* The paths of a sequence of (fitness, path) pairs.
PathsOf(evaluated) == [k \in 1..Len(evaluated) |-> evaluated[k][2]]

\* Whether the worker count divides the population size.
Divides == NUMBER_OF_INDIVIDUALS_PER_POPULATION % (size - 1) = 0

\* C1: one generation step conserves the population's size: for an elite
\* size below the population's size, ga_iteraration returns (its assertion
\* on the lengths does not fail) a population of the size it was given, and
\* so does the controller's own reproduction.
C1_SizeConserved ==
    /\ (ga_result.op = "ga_iteraration"
        /\ ga_call.elite_size < Len(ga_call.population))
       => (~ga_result.panic /\ Len(ga_result.value) = Len(ga_call.population))
    /\ (ga_result.op = "main" /\ ELITE < Len(ga_call.population))
       => (~ga_result.panic /\ Len(ga_result.value) = Len(ga_call.population))

\* C1's case: a population of MaxPopulation individuals and an elite size of
\* 1 yield a population of the same size that holds a new individual.
C1_Witness ==
    /\ ga_result.op = "ga_iteraration"
    /\ Len(ga_call.population) = MaxPopulation
    /\ ga_call.elite_size = 1
    /\ ~ga_result.panic
    /\ Len(ga_result.value) = MaxPopulation
    /\ ga_result.value[1] \notin Range(ga_call.population)

\* C10: mutate keeps the path's length and the multiset of its entries, so
\* a permutation stays a permutation, whatever the two positions drawn.
C10_MutatePreservesMultiset ==
    (org_result.op = "mutate" /\ ~org_result.panic)
    => /\ Len(org_result.value) = Len(org_self)
       /\ BagOf(org_result.value) = BagOf(org_self)
       /\ IsPermutation(org_self) => IsPermutation(org_result.value)

\* C10's case: a permutation mutated at two different positions, which
\* changes the path.
C10_Witness ==
    /\ org_result.op = "mutate"
    /\ IsPermutation(org_self)
    /\ org_call.first # org_call.second
    /\ org_result.value # org_self
    /\ IsPermutation(org_result.value)

\* C2 (as claimed): every scatter sends exactly one Population message to
\* each worker rank 1..W and to no other rank, and the chunks sent are
\* contiguous, disjoint and cover the current population: once a scatter has
\* ended, by completing or by aborting, the ranks sent to are 1, .., W in
\* order and the chunks sent concatenate to the population.
C2_ScatterPartition ==
    pc0 \in {"gather", "select", "panicked"}
    => /\ [k \in 1..Len(scattered) |-> scattered[k][1]] = [k \in 1..(size - 1) |-> k]
       /\ Concat([k \in 1..Len(scattered) |-> scattered[k][2]]) = tsp

\* C3: when the worker count divides the population size, the merged set
\* the controller holds before selection, in a generation or in the final
\* pass, has as many entries as the population scattered and the same
\* multiset of paths.
C3_GatherKeepsPopulation ==
    (Divides /\ pc0 = "select")
    => /\ Len(eval_pop) = NUMBER_OF_INDIVIDUALS_PER_POPULATION
       /\ BagOf(PathsOf(eval_pop)) = BagOf(tsp)

\* C3's case: three workers with a chunk of one each, before the selection of
\* the second generation, whose population holds a path that is no
\* permutation.
C3_Witness ==
    /\ size = MaxWorkers + 1
    /\ pc0 = "select"
    /\ iteration = 1
    /\ Len(eval_pop) = NUMBER_OF_INDIVIDUALS_PER_POPULATION
    /\ \A w \in Workers : Len(scattered[w][2]) = 1
    /\ \E k \in 1..Len(tsp) : ~IsPermutation(tsp[k])
    /\ BagOf(PathsOf(eval_pop)) = BagOf(tsp)

\* C4: the population keeps its size in every generation, and the best
\* fitness the controller prints never increases from one report to the
\* next.
C4_BestNeverIncreases ==
    /\ [](Len(tsp) = NUMBER_OF_INDIVIDUALS_PER_POPULATION)
    /\ [][reported # <<>> => reported'[1] <= reported[1]]_vars

\* C4's case: after the first generation's report the new population holds
\* an individual strictly better than the best one reported.
C4_Witness ==
    /\ pc0 = "scatter"
    /\ iteration = 1
    /\ reported # <<>>
    /\ Len(tsp) = NUMBER_OF_INDIVIDUALS_PER_POPULATION
    /\ \E k \in 1..Len(tsp) : fitness(tsp[k], graph_weights) < reported[1]

C6_GatherIsBarrier ==
    /\ pc0 = "select" => \A w \in Workers : recv_eval[w] = iteration + 1
    /\ \A w \in Workers : \A v \in Workers :
         /\ sent_pop[w] <= recv_eval[v] + 1
         /\ recv_pop[w] <= recv_eval[v] + 1
    /\ \A w \in Workers : recv_eval[w] <= sent_eval[w] /\ sent_eval[w] <= recv_pop[w]

\* C6's case: three workers, the second generation's gathering complete.
C6_Witness ==
    /\ size = MaxWorkers + 1
    /\ pc0 = "select"
    /\ iteration = 1
    /\ \A w \in Workers : recv_eval[w] = 2 /\ sent_pop[w] = 2

\* C7: a worker that has received Terminate has left its loop and does
\* nothing more: it stays done, sends nothing and receives nothing.
C7_TerminateEndsWorker ==
    [][\A w \in Workers :
         recv_term[w] > 0
         => /\ pc[w] = "done" /\ pc'[w] = "done"
            /\ sent_eval'[w] = sent_eval[w]
            /\ reply'[w] = reply[w]
            /\ recv_pop'[w] = recv_pop[w]
            /\ recv_term'[w] = recv_term[w]
            /\ chan'[w] = chan[w]]_vars

\* C7's case: a worker is done after Terminate while the controller still
\* has a Terminate to send to another worker.
C7_Witness ==
    /\ size = MaxWorkers + 1
    /\ recv_term[1] = 1
    /\ pc[1] = "done"
    /\ sent_eval[1] = ITERATIONS + 1
    /\ pc0 = "terminate"
    /\ next = 2

\* C8: Terminate is sent at most once to a worker and only after the final
\* gathering has received every reply; the controller never starts more
\* than ITERATIONS + 1 rounds; when main returns at the controller it has
\* sent ITERATIONS + 1 Population messages and one Terminate to every
\* worker, and a worker that is done has received exactly those.
C8_TerminateOnceAfterFinalPass ==
    /\ \A w \in Workers :
         /\ sent_term[w] <= 1
         /\ recv_term[w] <= sent_term[w]
         /\ sent_pop[w] <= ITERATIONS + 1
         /\ recv_pop[w] <= sent_pop[w]
         /\ sent_term[w] = 1
            => /\ iteration = ITERATIONS
               /\ \A v \in Workers : recv_eval[v] = ITERATIONS + 1
         /\ pc[w] = "done" => recv_pop[w] = ITERATIONS + 1 /\ recv_term[w] = 1
    /\ pc0 = "done"
       => \A w \in Workers : sent_term[w] = 1 /\ sent_pop[w] = ITERATIONS + 1

\* C8's case: main has returned at the controller and at every one of three workers.
C8_Witness ==
    /\ size = MaxWorkers + 1
    /\ pc0 = "done"
    /\ \A w \in Workers : pc[w] = "done" /\ recv_pop[w] = ITERATIONS + 1

\* Every process has returned from main.
AllDone == pc0 = "done" /\ \A w \in Workers : pc[w] = "done"

\* C9: when the worker count divides the population size and every process
\* runs when it can, the run ends, with a transport that buffers as with
\* one that blocks a send until it is received: the iteration counter only
\* steps from 0 up to ITERATIONS, and eventually the controller and every
\* worker have returned from main (so no state before that is a deadlock).
C9_RunTerminates ==
    /\ [][iteration' \in {iteration, iteration + 1} /\ iteration' <= ITERATIONS]_vars
    /\ Divides ~> (AllDone /\ iteration = ITERATIONS)

\* C9's case: a run with three workers over a transport whose sends block
\* until received has ended.
C9_Witness ==
    /\ synchronous
    /\ size = MaxWorkers + 1
    /\ AllDone
    /\ iteration = ITERATIONS
    /\ \A w \in Workers : chan[w] = <<>> /\ reply[w] = <<>>

\* C11: cross_over mutates neither parent and returns a path in a Vec of
\* its own: the step of cross_over leaves the paths of self and of the
\* second parent as they were, the child returned is held by a new Vec, and
\* a write to the child afterwards (its mutation) changes neither parent.
C11_CrossOverLeavesParents ==
    [][/\ org_call'.op = "cross_over"
          => /\ org_self' = org_self
             /\ org_other' = org_other
             /\ ~org_result'.panic => org_buffer' = "new"
       /\ org_call.op = "cross_over"
          => org_self' = org_self /\ org_other' = org_other]_vars

\* C11's case: a child that differs from both parents was returned and
\* then mutated into yet another path, with both parents permutations still.
C11_Witness ==
    /\ org_call.op = "mutate_child"
    /\ org_call.first # org_call.second
    /\ IsPermutation(org_self)
    /\ IsPermutation(org_other)
    /\ org_buffer = "new"
    /\ org_result.value \notin {org_self, org_other}
    /\ ~IsPermutation(org_result.value)

\* The cost of the open path from its k-th node on: the matrix entries over
\* the consecutive pairs, with no edge from the last node back to the first.
RECURSIVE OpenPathCost(_, _)
OpenPathCost(path, k) ==
    IF k >= Len(path) THEN 0
    ELSE MatrixData[path[k] + 1][path[k + 1] + 1] + OpenPathCost(path, k + 1)

\* C12: fitness is the reference function: for a tour of N node indices,
\* fitness returns INFINITY when the tour misses or repeats a node, and
\* otherwise the finite sum of the matrix entries over its consecutive
\* pairs as an open path; for the identity tour that is the sum of the
\* entries [i][i+1].
C12_FitnessIsReference ==
    (org_result.op = "fitness" /\ Len(org_self) = N /\ Range(org_self) \subseteq Nodes)
    => /\ ~org_result.panic
       /\ Range(org_self) # Nodes => org_result.value = <<INFINITY>>
       /\ Range(org_self) = Nodes
          => /\ org_result.value = <<OpenPathCost(org_self, 1)>>
             /\ org_result.value[1] < INFINITY
       /\ org_self = [i \in 1..N |-> i - 1]
          => org_result.value[1] = SumSeq([i \in 1..(N - 1) |-> MatrixData[i][i + 1]])

\* C12's case: fitness returned the finite cost of a permutation that is
\* not the identity and whose closing edge has a cost.
C12_Witness ==
    /\ org_result.op = "fitness"
    /\ IsPermutation(org_self)
    /\ org_self # [i \in 1..N |-> i - 1]
    /\ MatrixData[org_self[N] + 1][org_self[1] + 1] > 0
    /\ org_result.value = <<OpenPathCost(org_self, 1)>>

\* C13 (as claimed): fitness is total: for a path that breaks the domain
\* constraints (a wrong length, a repeated or missing node, an entry
\* outside [0, N)) fitness returns INFINITY and does not abort.
C13_FitnessTotal ==
    (org_result.op = "fitness" /\ ~IsPermutation(org_self))
    => ~org_result.panic /\ org_result.value = <<INFINITY>>

\* The fitness values of a sequence of (fitness, path) pairs.
FitnessesOf(evaluated) == [k \in 1..Len(evaluated) |-> evaluated[k][1]]

\* C14: the ranking is non-decreasing in fitness over the whole merged set
\* and does not depend on the merge order: whatever order the evaluated
\* entries are merged in, the sorted sequence holds the same entries, its
\* fitness values never decrease, every INFINITY entry comes after every
\* finite one, and its sequence of fitness values is the one every sort of
\* the population in its own order gives.
C14_RankingOrderIndependent ==
    ga_result.op = "sort"
    => LET merged == ga_result.value[1]
           sorted == ga_result.value[2]
       IN  /\ BagOf(sorted) = BagOf(merged)
           /\ Len(sorted) = Len(ga_call.population)
           /\ \A i \in 1..(Len(sorted) - 1) : sorted[i][1] <= sorted[i + 1][1]
           /\ \A i \in 1..Len(sorted) : \A j \in i..Len(sorted) :
                 sorted[i][1] = INFINITY => sorted[j][1] = INFINITY
           /\ \A other \in par_sort_unstable_by(
                                ga_evaluated_population(ga_call.population)) :
                 FitnessesOf(sorted) = FitnessesOf(other)

\* C14's case: three entries, one of them invalid, merged in an order that
\* is neither the population's nor sorted, with the invalid entry first.
C14_Witness ==
    /\ ga_result.op = "sort"
    /\ Len(ga_call.population) = MaxPopulation
    /\ ga_result.value[1] # ga_evaluated_population(ga_call.population)
    /\ ga_result.value[1][1][1] = INFINITY
    /\ ga_result.value[1][2][1] > ga_result.value[1][3][1]
    /\ ga_result.value[2][1][1] < ga_result.value[2][2][1]
    /\ ga_result.value[2][3][1] = INFINITY

\* C15 (as claimed): a decode error is fatal to the process that receives
\* it: a worker that takes from its channel a buffer that does not decode
\* to a Population or a Terminate aborts, a worker whose broadcast buffer
\* does not decode to a MapCreation aborts, and the controller aborts when
\* a reply does not decode to an EvaluatedPopulation.
C15_DecodeErrorIsFatal ==
    [][/\ \A w \in Workers :
            /\ (/\ pc[w] = "receive"
                /\ chan[w] # <<>>
                /\ Len(chan'[w]) < Len(chan[w])
                /\ ~IsOk(deserialize(Head(chan[w])), "Population")
                /\ ~IsOk(deserialize(Head(chan[w])), "Terminate"))
               => pc'[w] = "panicked"
            /\ (/\ pc[w] = "bcast_map"
                /\ pc'[w] # "bcast_map"
                /\ ~IsOk(deserialize(SubSeq(bcast[2], 1, bytes[w])), "MapCreation"))
               => pc'[w] = "panicked"
       /\ (/\ pc0 = "gather"
           /\ Len(reply'[next]) < Len(reply[next])
           /\ ~IsOk(deserialize(Head(reply[next])), "EvaluatedPopulation"))
          => pc0' = "panicked"]_vars

\* C16: cross_over builds the child by segment swap. For parents of N
\* entries each and drawn indices start_index <= end_index < N, the call
\* returns a path of N entries that holds self's entry at every position
\* before start_index and from end_index on, and other's entry at every
\* position from start_index to end_index - 1; the child is fixed by the
\* parents and the two indices.
C16_CrossOverSegmentSwap ==
    (/\ org_call.op = "cross_over"
     /\ Len(org_self) = N
     /\ Len(org_other) = N)
    => /\ org_call.first \in 0..(N - 1)
       /\ org_call.second \in org_call.first..(N - 1)
       /\ ~org_result.panic
       /\ Len(org_result.value) = N
       /\ \A i \in 0..(N - 1) :
            /\ i < org_call.first => org_result.value[i + 1] = org_self[i + 1]
            /\ i >= org_call.second => org_result.value[i + 1] = org_self[i + 1]
            /\ (i >= org_call.first /\ i < org_call.second)
               => org_result.value[i + 1] = org_other[i + 1]

\* A crossing with a prefix, a segment and a suffix, none empty where the
\* parents differ, so that the child is neither parent.
C16_Witness ==
    /\ org_call.op = "cross_over"
    /\ Len(org_self) = N
    /\ Len(org_other) = N
    /\ ~org_result.panic
    /\ org_call.first > 0
    /\ org_call.first < org_call.second
    /\ org_self[org_call.first + 1] # org_other[org_call.first + 1]
    /\ org_self[org_call.second + 1] # org_other[org_call.second + 1]
    /\ org_self[1] # org_other[1]
    /\ org_result.value \notin {org_self, org_other}

\* C17: crossover does not preserve validity and nothing but the ranking
\* keeps an invalid child out. When the controller replaces a population
\* of valid permutations, every tour of the new population that is no
\* permutation is one of the children (not one of the ELITE + 1 appended
\* copies), has N entries, all of them nodes, evaluates to INFINITY, and
\* is a segment swap of two valid tours of the old population, up to the
\* exchange of two entries by the mutation. That such a tour is reached,
\* sent out and evaluated in the next generation is C17_Witness.
C17_InvalidOffspringFromValidParents ==
    [][(/\ pc0 = "select"
        /\ tsp' # tsp
        /\ \A k \in 1..Len(eval_pop) : IsPermutation(eval_pop[k][2]))
       => \A k \in 1..Len(tsp') :
            ~IsPermutation(tsp'[k])
            => /\ k <= Len(tsp') - (ELITE + 1)
               /\ Len(tsp'[k]) = N
               /\ Range(tsp'[k]) \subseteq Nodes
               /\ ~fitness_panics(tsp'[k], graph_weights)
               /\ fitness(tsp'[k], graph_weights) = INFINITY
               /\ \E a, b \in Range(PathsOf(eval_pop)) :
                    \E start, end \in 0..(N - 1) :
                      /\ start < end
                      /\ LET crossed == [i \in 1..N |->
                                           IF i - 1 >= start /\ i - 1 < end
                                           THEN b[i] ELSE a[i]]
                         IN  /\ ~IsPermutation(crossed)
                             /\ \E i, j \in 1..N :
                                  tsp'[k] = [crossed EXCEPT ![i] = crossed[j],
                                                            ![j] = crossed[i]]]_vars

\* In the generation after the first, a worker has evaluated a tour that
\* is no permutation to INFINITY and the controller has gathered it; the
\* first population held valid permutations only.
C17_Witness ==
    /\ iteration = 1
    /\ pc0 \in {"gather", "select"}
    /\ \E k \in 1..Len(tsp) :
         /\ ~IsPermutation(tsp[k])
         /\ \E j \in 1..Len(eval_pop) : eval_pop[j] = <<INFINITY, tsp[k]>>

\* C18: the elite is carried unchanged. For a population of M individuals
\* and an elite size e < M, the population returned ends with e + 1 tours
\* that are, in rank order, the tours ranked 0 to e of some fitness-ascending
\* ordering of the evaluated population: copies that no crossover and no
\* mutation has touched, whatever the two rates are. The same holds for the
\* controller's own reproduction with its ELITE.
C18_EliteCarriedUnchanged ==
    /\ (/\ ga_result.op = "ga_iteraration"
        /\ ga_call.elite_size < Len(ga_call.population)
        /\ ~ga_result.panic)
       => \E sorted \in par_sort_unstable_by(
                            ga_evaluated_population(ga_call.population)) :
            SubSeq(ga_result.value,
                   Len(ga_result.value) - ga_call.elite_size,
                   Len(ga_result.value))
              = [i \in 1..(ga_call.elite_size + 1) |-> sorted[i][2]]
    /\ (/\ ga_result.op = "main"
        /\ ELITE < Len(ga_call.population)
        /\ ~ga_result.panic)
       => \E sorted \in par_sort_unstable_by(
                            ga_evaluated_population(ga_call.population)) :
            SubSeq(ga_result.value, Len(ga_result.value) - ELITE,
                   Len(ga_result.value))
              = [i \in 1..(ELITE + 1) |-> sorted[i][2]]

\* A call that mutates every child (rate 1.0) and crosses none: the child
\* is a tour the population did not hold, and the two appended tours are
\* the two best of the population, as they were.
C18_Witness ==
    /\ ga_result.op = "ga_iteraration"
    /\ ~ga_result.panic
    /\ Len(ga_call.population) = 3
    /\ ga_call.elite_size = 1
    /\ ga_call.mutation_rate = 10
    /\ ga_call.crossover_rate = 0
    /\ Len(ga_result.value) = 3
    /\ ga_result.value[1] \notin Range(ga_call.population)
    /\ ga_result.value[2] \in Range(ga_call.population)
    /\ ga_result.value[3] \in Range(ga_call.population)
    /\ ga_result.value[2] # ga_result.value[3]
    /\ fitness(ga_result.value[2], graph_weights)
         < fitness(ga_result.value[3], graph_weights)
    /\ \A k \in 1..3 : fitness(ga_result.value[2], graph_weights)
                          <= fitness(ga_call.population[k], graph_weights)

\* C19 as stated: overlapping windows of 2 over rest yield len(rest) - 1
\* children, child i being rest[i] crossed with rest[i + 1] when its draw is
\* below the crossover rate and a clone of rest[i] otherwise, and each
\* individual of rest other than the last is the first parent of exactly
\* one window and the second parent of exactly one window.
C19_EachParentOnceEach ==
    (/\ ga_result.op = "windows"
     /\ ~ga_result.panic
     /\ Len(ga_result.value.rest) >= 1)
    => /\ Len(ga_result.value.children) = Len(ga_result.value.rest) - 1
       /\ \A p \in 1..(Len(ga_result.value.rest) - 1) :
            /\ Cardinality({i \in 1..Len(ga_result.value.parents) :
                               ga_result.value.parents[i][1] = p}) = 1
            /\ Cardinality({i \in 1..Len(ga_result.value.parents) :
                               ga_result.value.parents[i][2] = p}) = 1

\* C19, amended: overlapping windows of 2 over rest yield len(rest) - 1
\* children; child i comes from the window (rest[i], rest[i + 1]): it is the
\* segment swap of the two at the drawn indices when its draw is below the
\* crossover rate, and a clone of rest[i] otherwise. Each individual of
\* rest other than the last is the first parent of exactly one window, each
\* one other than the first is the second parent of exactly one window; the
\* first is never a second parent and the last never a first parent.
C19_OverlappingWindows ==
    (/\ ga_result.op = "windows"
     /\ ~ga_result.panic
     /\ Len(ga_result.value.rest) >= 1)
    => LET rest == ga_result.value.rest
           parents == ga_result.value.parents
           draws == ga_result.value.draws
           children == ga_result.value.children
       IN  /\ Len(children) = Len(rest) - 1
           /\ Len(parents) = Len(rest) - 1
           /\ \A i \in 1..Len(children) :
                /\ parents[i] = <<i, i + 1>>
                /\ ~children[i].panic
                /\ draws[i][1] >= ga_call.crossover_rate
                   => children[i].value = rest[i]
                /\ draws[i][1] < ga_call.crossover_rate
                   => children[i].value =
                        [k \in 1..Len(rest[i]) |->
                           IF k - 1 >= draws[i][2] /\ k - 1 < draws[i][3]
                           THEN rest[i + 1][k] ELSE rest[i][k]]
           /\ \A p \in 1..Len(rest) :
                /\ Cardinality({i \in 1..Len(parents) : parents[i][1] = p})
                     = IF p < Len(rest) THEN 1 ELSE 0
                /\ Cardinality({i \in 1..Len(parents) : parents[i][2] = p})
                     = IF p > 1 THEN 1 ELSE 0

\* Two windows over a slice of three: the first one crosses its parents
\* into a tour that is neither, the second one clones its first parent,
\* which was the second parent of the first window.
C19_Witness ==
    /\ ga_result.op = "windows"
    /\ ~ga_result.panic
    /\ Len(ga_result.value.rest) = 3
    /\ Len(ga_result.value.children) = 2
    /\ ga_result.value.draws[1][1] < ga_call.crossover_rate
    /\ ga_result.value.draws[2][1] >= ga_call.crossover_rate
    /\ ga_result.value.children[1].value
         \notin {ga_result.value.rest[1], ga_result.value.rest[2]}
    /\ ga_result.value.children[2].value = ga_result.value.rest[2]
    /\ ga_result.value.rest[2] # ga_result.value.rest[3]

\* C20: a worker replies exactly once per Population message and never
\* otherwise. A worker has sent as many EvaluatedPopulation messages as it
\* has received Population messages, less the one it is answering; when it
\* waits to receive, the two counts are equal. The step that receives a
\* Population message of tours c sends one buffer to the controller, which
\* decodes to an EvaluatedPopulation of Len(c) pairs, pair k being the
\* fitness of c[k] on the matrix that was broadcast and c[k] itself; no
\* other step of a worker sends anything to the controller.
C20_ReplyOncePerPopulation ==
    /\ [](\A w \in Workers :
            /\ sent_eval[w] <= recv_pop[w]
            /\ recv_pop[w] <= sent_eval[w] + 1
            /\ Len(reply[w]) <= sent_eval[w]
            /\ pc[w] = "receive" => sent_eval[w] = recv_pop[w]
            /\ recv_pop[w] # sent_eval[w] => pc[w] = "panicked")
    /\ [][\A w \in Workers :
            /\ recv_pop'[w] # recv_pop[w]
               => /\ pc[w] = "receive"
                  /\ chan[w] # <<>>
                  /\ IsOk(deserialize(Head(chan[w])), "Population")
                  /\ recv_pop'[w] = recv_pop[w] + 1
                  /\ sent_eval'[w] = sent_eval[w] + 1
                  /\ Len(reply'[w]) = Len(reply[w]) + 1
                  /\ SubSeq(reply'[w], 1, Len(reply[w])) = reply[w]
                  /\ LET c == deserialize(Head(chan[w])).message.payload
                         answer == deserialize(reply'[w][Len(reply'[w])])
                     IN  /\ IsOk(answer, "EvaluatedPopulation")
                         /\ Len(answer.message.payload) = Len(c)
                         /\ \A k \in 1..Len(c) :
                              /\ answer.message.payload[k][2] = c[k]
                              /\ answer.message.payload[k][1]
                                   = fitness(c[k], graph_weights)
            /\ recv_pop'[w] = recv_pop[w]
               => /\ sent_eval'[w] = sent_eval[w]
                  /\ Len(reply'[w]) <= Len(reply[w])]_vars

\* A worker that has answered its second Population message, one that held
\* a tour that is no permutation, and waits to receive again while the
\* controller has yet to gather the answer.
C20_Witness ==
    \E w \in Workers :
      /\ recv_pop[w] = 2
      /\ sent_eval[w] = 2
      /\ pc[w] = "receive"
      /\ Len(reply[w]) = 1
      /\ \E k \in 1..Len(deserialize(reply[w][1]).message.payload) :
           /\ deserialize(reply[w][1]).message.payload[k][1] = INFINITY
           /\ ~IsPermutation(deserialize(reply[w][1]).message.payload[k][2])

\* C21: the controller's inline reproduction is equivalent to
\* ga_iteraration. On the same population, with the program's elite size
\* and rates and the same draws, the population the controller builds from
\* the merged, sorted results of the workers is the one ga_iteraration
\* returns, and one panics exactly when the other does; and whatever the
\* controller's reproduction can yield over all draws is an outcome of
\* ga_iteraration on that population.
C21_ControllerEqualsEngine ==
    /\ ga_result.op = "compare" => ga_result.value[1] = ga_result.value[2]
    /\ ga_result.op = "main"
       => [panic |-> ga_result.panic, value |-> ga_result.value]
            \in ga_iteraration(ga_call.population, MUTATION_RATE,
                               CROSSOVER_RATE, ELITE)

\* Both build a population of three from three distinct tours: a child
\* that was crossed and mutated into a tour the population did not hold,
\* then the two best.
C21_Witness ==
    /\ ga_result.op = "compare"
    /\ Len(ga_call.population) = 3
    /\ Cardinality(Range(ga_call.population)) = 3
    /\ ~ga_result.value[1].panic
    /\ ~ga_result.value[2].panic
    /\ Len(ga_result.value[2].value) = 3
    /\ ga_result.value[3][1][1] < CROSSOVER_RATE
    /\ ga_result.value[3][1][4] < MUTATION_RATE
    /\ ga_result.value[2].value[1] \notin Range(ga_call.population)

\* C22: every tour a process holds is well formed. In every reachable
\* state, each tour of the controller's population, of the pairs it has
\* gathered, of a Population message on its way to a worker and of an
\* EvaluatedPopulation message on its way back has exactly N entries, each
\* of them a node, whether or not the tour is a permutation; so no
\* evaluation indexes the matrix out of bounds and no worker aborts in one.
C22_ToursWellFormed ==
    LET WellFormed(path) == Len(path) = N /\ Range(path) \subseteq Nodes
        Carried(buffer) ==
            LET message == deserialize(buffer)
            IN  IF IsOk(message, "Population")
                THEN message.message.payload
                ELSE IF IsOk(message, "EvaluatedPopulation")
                THEN PathsOf(message.message.payload)
                ELSE <<>>
    IN  /\ \A k \in 1..Len(tsp) :
             WellFormed(tsp[k]) /\ ~fitness_panics(tsp[k], graph_weights)
        /\ \A k \in 1..Len(eval_pop) : WellFormed(eval_pop[k][2])
        /\ \A w \in Workers :
             /\ pc[w] # "panicked"
             /\ \A m \in 1..Len(chan[w]) :
                  \A k \in 1..Len(Carried(chan[w][m])) :
                    /\ WellFormed(Carried(chan[w][m])[k])
                    /\ map[w] # <<>>
                       => ~fitness_panics(Carried(chan[w][m])[k], map[w])
             /\ \A m \in 1..Len(reply[w]) :
                  \A k \in 1..Len(Carried(reply[w][m])) :
                    WellFormed(Carried(reply[w][m])[k])

\* After the last generation a tour that is no permutation is in the
\* controller's population and on its way to a worker, while the evaluated
\* tours of another worker are on their way back.
C22_Witness ==
    /\ iteration = ITERATIONS
    /\ \E k \in 1..Len(tsp) :
         /\ ~IsPermutation(tsp[k])
         /\ \E w \in Workers :
              /\ chan[w] # <<>>
              /\ IsOk(deserialize(chan[w][1]), "Population")
              /\ \E j \in 1..Len(deserialize(chan[w][1]).message.payload) :
                   deserialize(chan[w][1]).message.payload[j] = tsp[k]
    /\ \E w \in Workers :
         /\ reply[w] # <<>>
         /\ IsOk(deserialize(reply[w][1]), "EvaluatedPopulation")
         /\ Len(deserialize(reply[w][1]).message.payload) >= 1

\* C23: with both rates 0 a generation step drops the worst and doubles
\* ranked[e]. For a population of M >= 2 individuals and e < M - 1, a call
\* with crossover rate 0 and mutation rate 0 returns, for some
\* fitness-ascending ranking of the population, the tours ranked e to
\* M - 2 followed by the tours ranked 0 to e: as a multiset, the ranked
\* population less one copy of ranked[M - 1] plus one copy of ranked[e].
\* The worst-ranked tour is in the result only as often as better-ranked
\* individuals hold the same tour.
C23_NoVariationDropsWorst ==
    (/\ ga_result.op = "ga_iteraration"
     /\ ga_call.mutation_rate = 0
     /\ ga_call.crossover_rate = 0
     /\ Len(ga_call.population) >= 2
     /\ ga_call.elite_size < Len(ga_call.population) - 1)
    => /\ ~ga_result.panic
       /\ \E sorted \in par_sort_unstable_by(
                             ga_evaluated_population(ga_call.population)) :
            LET M == Len(sorted)
                e == ga_call.elite_size
                ranked == PathsOf(sorted)
                Count(s, p) == Cardinality({i \in 1..Len(s) : s[i] = p})
            IN  /\ ga_result.value
                     = SubSeq(ranked, e + 1, M - 1) \o SubSeq(ranked, 1, e + 1)
                /\ \A p \in Range(ranked) \cup Range(ga_result.value) :
                     Count(ga_result.value, p)
                       = Count(ranked, p)
                         - (IF p = ranked[M] THEN 1 ELSE 0)
                         + (IF p = ranked[e + 1] THEN 1 ELSE 0)
                /\ Count(ga_result.value, ranked[M])
                     = Count(SubSeq(ranked, 1, M - 1), ranked[M])
                       + (IF ranked[M] = ranked[e + 1] THEN 1 ELSE 0)

\* Three distinct tours, the worst one with a fitness of its own, and an
\* elite size of 0: the result holds the best twice, the second once and
\* the worst not at all.
C23_Witness ==
    /\ ga_result.op = "ga_iteraration"
    /\ ~ga_result.panic
    /\ ga_call.mutation_rate = 0
    /\ ga_call.crossover_rate = 0
    /\ ga_call.elite_size = 0
    /\ Len(ga_call.population) = 3
    /\ Cardinality(Range(ga_call.population)) = 3
    /\ Len(ga_result.value) = 3
    /\ ga_result.value[1] = ga_result.value[3]
    /\ ga_result.value[2] # ga_result.value[1]
    /\ \E k \in 1..3 :
         /\ ga_call.population[k] \notin Range(ga_result.value)
         /\ \A j \in 1..3 :
              j # k => fitness(ga_call.population[j], graph_weights)
                         < fitness(ga_call.population[k], graph_weights)

====
